---- MODULE Spec2Model ----
(***************************************************************************)
(* Payment-and-balance protocol of server.js: the worker and vendor        *)
(* payment handlers, the payee CRUD handlers and the payment listing, all  *)
(* running their statements through the shared pg connection pool.         *)
(*                                                                         *)
(* Every pool.query(...) checks a client out of the pool, runs ONE         *)
(* statement on it and releases it.  A payment handler awaits such calls   *)
(* in a row, so its statements are separate steps and the client of each   *)
(* step is whatever the pool hands out at that moment.  The database keeps *)
(* its transaction state per connection (session).                         *)
(*                                                                         *)
(* Node runs one callback at a time: when a statement returns, the client  *)
(* is released (and handed to the first waiting pool.query, if any) and    *)
(* the awaiting handler then issues its next pool.query, all before any    *)
(* other handler runs.  One such callback is one step of the model.        *)
(***************************************************************************)
EXTENDS Integers, Sequences, FiniteSets, TLC

\* ---------------------------------------------------------------- bounds
MaxPayees == 1      \* payees that can be created per kind
MaxReqs == 2        \* payment requests
MaxConns == 1       \* clients the pool may hold (the pool's max)
PoolConns == 2      \* the same, in the specification with the larger pool
MaxFaults == 1      \* storage faults (a statement failing for infrastructure reasons)

\* ---------------------------------------------------------------- domains
Kinds == {"worker", "vendor"}
PayeeIds == 1..MaxPayees
PayeeKeys == Kinds \X PayeeIds
Reqs == 1..MaxReqs
Conns == 1..PoolConns
\* The handlers that hold or wait for a client: the payment requests, and 0
\* for the single-statement (CRUD / listing) request being served.
Crud == 0
Handlers == Reqs \cup {Crud}

\* req.body.amount and req.body.payment_date arrive unvalidated.
NotANumber == 99
InvalidDate == 99
\* The request bodies tried: <<amount, payment_date>>.
Bodies == {<<1, 2>>, <<2, 1>>, <<-1, 1>>, <<NotANumber, 1>>, <<1, InvalidDate>>}
Names == {1}
\* The name a PUT changes a payee to.
NewNames == {2}
NULL == 0

IsNumeric(a) == a # NotANumber
IsDate(d) == d # InvalidDate

\* ---------------------------------------------------------------- state
VARIABLES
    payees,      \* committed workers / vendors rows, by <<kind, id>>
    payments,    \* committed worker_payments / vendor_payments rows
    payeeSeq,    \* workers_id_seq / vendors_id_seq
    paymentSeq,  \* worker_payments_id_seq / vendor_payments_id_seq
    conn,        \* per pooled client: the session's transaction state
    pool,        \* the pool: live clients, idle list, waiting queries, who holds what
    reqs,        \* the payment requests and where each handler stands
    crud,        \* the single-statement request being served, if any
    faults,      \* storage faults injected so far
    deletedOk,   \* payees whose DELETE removed a row and answered success
    lastList     \* the result of the latest GET .../:id/payments

vars == <<payees, payments, payeeSeq, paymentSeq, conn, pool, reqs, crud, faults,
          deletedOk, lastList>>

\* A payee row; applied is the sequence of requests whose aggregate UPDATE
\* the row carries (history, in update order).
NoRow == [exists |-> FALSE, name |-> 0, total_paid |-> 0,
          last_payment_date |-> NULL, applied |-> <<>>]

NewRow(n) == [exists |-> TRUE, name |-> n, total_paid |-> 0,
              last_payment_date |-> NULL, applied |-> <<>>]

NoRows == [p \in {} |-> NoRow]

\* A session outside any transaction.
NoTxn == [txn |-> FALSE, rows |-> NoRows, ins |-> {}, del |-> {}, ks |-> {}]

NewReq == [pc |-> "new", kind |-> "worker", id |-> 1, amount |-> 1,
           payment_date |-> 1, resp |-> "none", entry |-> 0, failed |-> "no",
           overlap |-> FALSE, missed |-> FALSE]

NoCrud == [op |-> "none", kind |-> "worker", id |-> 0, name |-> 0]

NoList == [kind |-> "worker", payee |-> 0, rows |-> <<>>, afterDelete |-> FALSE]

\* The state after startup, with a pool of at most n clients.
Started(n) ==
    /\ payees = [p \in PayeeKeys |-> NoRow]
    /\ payments = {}
    /\ payeeSeq = [k \in Kinds |-> 0]
    /\ paymentSeq = [k \in Kinds |-> 0]
    /\ conn = [c \in Conns |-> NoTxn]
    /\ pool = [max |-> n, live |-> {}, idle |-> <<>>, pending |-> <<>>,
               holds |-> [h \in Handlers |-> 0]]
    /\ reqs = [r \in Reqs |-> NewReq]
    /\ crud = NoCrud
    /\ faults = 0
    /\ deletedOk = {}
    /\ lastList = NoList

Init == Started(MaxConns)

InitPool == Started(PoolConns)

\* ---------------------------------------------------------------- the pool
\* pool.query -> pool.connect for handler h: the most recently released idle
\* client, else a new client while the pool is not full, else h waits in line.
Acquire(P, h) ==
    IF P.idle # <<>>
    THEN [P EXCEPT !.holds[h] = P.idle[Len(P.idle)],
                   !.idle = SubSeq(P.idle, 1, Len(P.idle) - 1)]
    ELSE IF Cardinality(P.live) < P.max
    THEN LET c == CHOOSE x \in Conns \ P.live : \A y \in Conns \ P.live : x <= y
         IN  [P EXCEPT !.holds[h] = c, !.live = @ \cup {c}]
    ELSE [P EXCEPT !.pending = Append(@, h)]

\* client.release() by handler h: the first waiting query gets the client,
\* else it joins the idle list.
Release(P, h) ==
    LET c == P.holds[h]
        Q == [P EXCEPT !.holds[h] = 0]
    IN  IF Q.pending # <<>>
        THEN [Q EXCEPT !.holds[Head(Q.pending)] = c, !.pending = Tail(@)]
        ELSE [Q EXCEPT !.idle = Append(@, c)]

\* client.release(err) by handler h: the client is dropped, and the first
\* waiting query gets a new one (modelled in the same slot, a fresh session).
Remove(P, h) ==
    LET c == P.holds[h]
        Q == [P EXCEPT !.holds[h] = 0]
    IN  IF Q.pending # <<>>
        THEN [Q EXCEPT !.holds[Head(Q.pending)] = c, !.pending = Tail(@)]
        ELSE [Q EXCEPT !.live = @ \ {c}]

\* ---------------------------------------------------------------- the database
Merge(W, f) == [p \in (DOMAIN W) \cup (DOMAIN f) |-> IF p \in DOMAIN W THEN W[p] ELSE f[p]]

\* What a statement running on client c sees: committed data plus the
\* uncommitted writes of c's own open transaction.
RowView(c, p) == IF p \in DOMAIN conn[c].rows THEN conn[c].rows[p] ELSE payees[p]

PaymentsView(c) == (payments \ conn[c].del) \cup conn[c].ins

\* Row locks held by the open transactions of other clients.
XLocked(c, p) ==
    /\ payees[p].exists
    /\ \E d \in Conns \ {c} : p \in DOMAIN conn[d].rows

DelLocked(c, p) ==
    /\ payees[p].exists
    /\ \E d \in Conns \ {c} : p \in DOMAIN conn[d].rows /\ ~conn[d].rows[p].exists

KSLocked(c, p) == \E d \in Conns \ {c} : p \in conn[d].ks

\* The writes of one statement on client c: row writes W, payment rows I
\* inserted and D deleted, key-share locks K.  Inside an open transaction they
\* stay with the session; otherwise the statement autocommits.
Exec(c, W, I, D, K) ==
    IF conn[c].txn
    THEN /\ conn' = [conn EXCEPT ![c] =
                        [@ EXCEPT !.rows = Merge(W, @),
                                  !.ins = (@ \ D) \cup I,
                                  !.del = @ \cup (D \cap payments),
                                  !.ks = @ \cup K]]
         /\ UNCHANGED <<payees, payments>>
    ELSE /\ payees' = Merge(W, payees)
         /\ payments' = (payments \ D) \cup I
         /\ UNCHANGED conn

\* ---------------------------------------------------------------- payments
Key(r) == <<reqs[r].kind, reqs[r].id>>

\* The client running the current statement of handler h (0: none, h waits
\* or is not active).
Client(h) == pool.holds[h]

Others == <<payeeSeq, crud, faults, deletedOk, lastList>>

\* The handler of r is running (received, not yet finished).  reqs[r].overlap
\* records that another payment handler ran while r did, reqs[r].missed that
\* the UPDATE of r matched no row (history).
Active(r) == reqs[r].pc \notin {"new", "done"}

\* POST /api/workers/:id/payments, POST /api/vendors/:id/payments arrive
\* (requests are numbered in order of arrival); the handler issues BEGIN.
Receive(r, k, i, b) ==
    /\ reqs[r].pc = "new"
    /\ \A q \in Reqs : q < r => reqs[q].pc # "new"
    /\ reqs' = [q \in Reqs |->
                   IF q = r
                   THEN [reqs[r] EXCEPT !.pc = "begin", !.kind = k, !.id = i,
                                        !.amount = b[1], !.payment_date = b[2],
                                        !.overlap = \E o \in Reqs : Active(o)]
                   ELSE [reqs[q] EXCEPT !.overlap = @ \/ Active(q)]]
    /\ pool' = Acquire(pool, r)
    /\ UNCHANGED <<payees, payments, payeeSeq, paymentSeq, conn, crud, faults,
                   deletedOk, lastList>>

\* The statement of r returned: its client is released and the handler
\* issues its next statement.
Returned(r, next) ==
    /\ reqs' = [reqs EXCEPT ![r].pc = next]
    /\ pool' = Acquire(Release(pool, r), r)

\* The statement of r threw: pool.query hands the error to client.release,
\* which drops the client (the server rolls its session back), and the
\* handler's catch issues ROLLBACK.
Threw(r) ==
    /\ reqs' = [reqs EXCEPT ![r].pc = "rollback", ![r].failed = reqs[r].pc]
    /\ conn' = [conn EXCEPT ![Client(r)] = NoTxn]
    /\ pool' = Acquire(Remove(pool, r), r)
    /\ UNCHANGED <<payees, payments>>

\* BEGIN on the client it was given (a warning and no change when that
\* session already is in a transaction).
BeginDone(r) ==
    /\ reqs[r].pc = "begin"
    /\ Client(r) # 0
    /\ conn' = [conn EXCEPT ![Client(r)].txn = TRUE]
    /\ Returned(r, "insert")
    /\ UNCHANGED <<payees, payments, paymentSeq, Others>>

Entry(r, n) == [kind |-> reqs[r].kind, id |-> n, payee |-> reqs[r].id,
                amount |-> reqs[r].amount, payment_date |-> reqs[r].payment_date,
                req |-> r]

\* The parameters of the INSERT are of the column types.
InsertValid(r) == IsNumeric(reqs[r].amount) /\ IsDate(reqs[r].payment_date)

\* The INSERT without its REFERENCES constraint.
FKUnchecked(c, p) == TRUE

\* The foreign key worker_id / vendor_id REFERENCES the payee, as seen by c.
FKHolds(c, p) == RowView(c, p).exists

\* INSERT INTO worker_payments / vendor_payments ... RETURNING *
InsertDone(r) ==
    LET c == Client(r)
        k == reqs[r].kind
        n == paymentSeq[k] + 1
    IN  /\ reqs[r].pc = "insert"
        /\ c # 0
        /\ IF ~InsertValid(r)
           THEN Threw(r) /\ UNCHANGED paymentSeq
           ELSE /\ ~DelLocked(c, Key(r))
                /\ paymentSeq' = [paymentSeq EXCEPT ![k] = n]
                /\ IF FKHolds(c, Key(r))
                   THEN /\ Exec(c, NoRows, {Entry(r, n)}, {}, {Key(r)})
                        /\ reqs' = [reqs EXCEPT ![r].pc = "update", ![r].entry = n]
                        /\ pool' = Acquire(Release(pool, r), r)
                   ELSE Threw(r)
        /\ UNCHANGED Others

\* SET total_paid = COALESCE(total_paid, 0) + $1, last_payment_date = $2
ApplyPayment(row, r) ==
    [row EXCEPT !.total_paid = @ + reqs[r].amount,
                !.last_payment_date = reqs[r].payment_date,
                !.applied = Append(@, r)]

\* UPDATE workers / vendors ... WHERE id = $3 (no row matched is no error)
UpdateDone(r) ==
    LET c == Client(r)
        p == Key(r)
    IN  /\ reqs[r].pc = "update"
        /\ c # 0
        /\ ~XLocked(c, p)
        /\ IF RowView(c, p).exists
           THEN Exec(c, [x \in {p} |-> ApplyPayment(RowView(c, p), r)], {}, {}, {})
           ELSE UNCHANGED <<payees, payments, conn>>
        /\ reqs' = [reqs EXCEPT ![r].pc = "commit", ![r].missed = ~RowView(c, p).exists]
        /\ pool' = Acquire(Release(pool, r), r)
        /\ UNCHANGED <<paymentSeq, Others>>

\* COMMIT on the client it was given, then res.json(paymentResult.rows[0]).
CommitDone(r) ==
    LET c == Client(r)
    IN  /\ reqs[r].pc = "commit"
        /\ c # 0
        /\ payees' = Merge(conn[c].rows, payees)
        /\ payments' = (payments \ conn[c].del) \cup conn[c].ins
        /\ conn' = [conn EXCEPT ![c] = NoTxn]
        /\ reqs' = [reqs EXCEPT ![r].pc = "done", ![r].resp = "ok"]
        /\ pool' = Release(pool, r)
        /\ UNCHANGED <<paymentSeq, Others>>

\* catch: ROLLBACK on the client it was given, then res.status(500).
RollbackDone(r) ==
    LET c == Client(r)
    IN  /\ reqs[r].pc = "rollback"
        /\ c # 0
        /\ conn' = [conn EXCEPT ![c] = NoTxn]
        /\ reqs' = [reqs EXCEPT ![r].pc = "done", ![r].resp = "error"]
        /\ pool' = Release(pool, r)
        /\ UNCHANGED <<payees, payments, paymentSeq, Others>>

\* A statement in flight fails for an infrastructure reason (the connection
\* drops).  Thrown from the try block it reaches the catch; thrown by the
\* ROLLBACK inside the catch it rejects the handler, and no response is sent.
StorageFault(r) ==
    /\ reqs[r].pc \in {"begin", "insert", "update", "commit", "rollback"}
    /\ Client(r) # 0
    /\ faults < MaxFaults
    /\ faults' = faults + 1
    /\ IF reqs[r].pc = "rollback"
       THEN /\ reqs' = [reqs EXCEPT ![r].pc = "done"]
            /\ conn' = [conn EXCEPT ![Client(r)] = NoTxn]
            /\ pool' = Remove(pool, r)
            /\ UNCHANGED <<payees, payments>>
       ELSE Threw(r)
    /\ UNCHANGED <<payeeSeq, paymentSeq, crud, deletedOk, lastList>>

\* The pool closes a client that stayed idle for idleTimeoutMillis; the server
\* rolls back whatever transaction the session had open.
IdleTimeout(c) ==
    /\ \E j \in 1..Len(pool.idle) : pool.idle[j] = c
    /\ pool' = [pool EXCEPT !.idle = SelectSeq(@, LAMBDA x : x # c), !.live = @ \ {c}]
    /\ conn' = [conn EXCEPT ![c] = NoTxn]
    /\ UNCHANGED <<payees, payments, payeeSeq, paymentSeq, reqs, crud, faults,
                   deletedOk, lastList>>

\* ---------------------------------------------------------------- payee CRUD
\* The single-statement handlers: one pool.query, then the response.
\* The requests tried: a create with and without the NOT NULL name, and an
\* edit, a delete, a payment listing and a payee listing per payee.
CrudInputs(k) ==
    {[op |-> "create", kind |-> k, id |-> 0, name |-> n] : n \in Names \cup {NULL}}
    \cup {[op |-> "edit", kind |-> k, id |-> i, name |-> n] : i \in PayeeIds, n \in NewNames}
    \cup {[op |-> o, kind |-> k, id |-> i, name |-> NULL] :
             o \in {"delete", "list"}, i \in PayeeIds}
    \cup {[op |-> "get", kind |-> k, id |-> 0, name |-> NULL]}

Issue(q) ==
    /\ crud.op = "none"
    /\ (q.op = "create" /\ q.name # NULL) => payeeSeq[q.kind] < MaxPayees
    /\ crud' = q
    /\ pool' = Acquire(pool, Crud)
    /\ UNCHANGED <<payees, payments, payeeSeq, paymentSeq, conn, reqs, faults,
                   deletedOk, lastList>>

CrudReturned ==
    /\ crud' = NoCrud
    /\ pool' = Release(pool, Crud)

\* The statement threw: the client is dropped, res.status(500).
CrudThrew ==
    /\ crud' = NoCrud
    /\ conn' = [conn EXCEPT ![Client(Crud)] = NoTxn]
    /\ pool' = Remove(pool, Crud)
    /\ UNCHANGED <<payees, payments>>

\* POST /api/workers, POST /api/vendors: total_paid DEFAULT 0, no payment
\* date; name VARCHAR(255) NOT NULL.
CreateDone ==
    LET c == Client(Crud)
        i == payeeSeq[crud.kind] + 1
    IN  /\ crud.op = "create"
        /\ c # 0
        /\ IF crud.name = NULL
           THEN CrudThrew /\ UNCHANGED payeeSeq
           ELSE /\ payeeSeq' = [payeeSeq EXCEPT ![crud.kind] = i]
                /\ Exec(c, [x \in {<<crud.kind, i>>} |-> NewRow(crud.name)], {}, {}, {})
                /\ CrudReturned
        /\ UNCHANGED <<paymentSeq, reqs, faults, deletedOk, lastList>>

\* A PUT that also rewrote the aggregate.
EditedWithTotal(row, n) == [row EXCEPT !.name = n, !.total_paid = 0]

\* SET name=$1, role=$2, hourly_rate=$3, contact=$4: the descriptive columns.
Edited(row, n) == [row EXCEPT !.name = n]

\* PUT /api/workers/:id, PUT /api/vendors/:id
EditDone ==
    LET c == Client(Crud)
        p == <<crud.kind, crud.id>>
    IN  /\ crud.op = "edit"
        /\ c # 0
        /\ ~XLocked(c, p)
        /\ IF RowView(c, p).exists
           THEN Exec(c, [x \in {p} |-> Edited(RowView(c, p), crud.name)], {}, {}, {})
           ELSE UNCHANGED <<payees, payments, conn>>
        /\ CrudReturned
        /\ UNCHANGED <<payeeSeq, paymentSeq, reqs, faults, deletedOk, lastList>>

\* The payment rows ON DELETE CASCADE removes with payee p, as seen by c.
Owned(c, p) == {e \in PaymentsView(c) : e.kind = p[1] /\ e.payee = p[2]}

\* DELETE /api/workers/:id, DELETE /api/vendors/:id
DeleteDone ==
    LET c == Client(Crud)
        p == <<crud.kind, crud.id>>
    IN  /\ crud.op = "delete"
        /\ c # 0
        /\ IF RowView(c, p).exists
           THEN /\ ~XLocked(c, p)
                /\ ~KSLocked(c, p)
                /\ Exec(c, [x \in {p} |-> NoRow], {}, Owned(c, p), {})
                /\ deletedOk' = deletedOk \cup {p}
           ELSE UNCHANGED <<payees, payments, conn, deletedOk>>
        /\ CrudReturned
        /\ UNCHANGED <<payeeSeq, paymentSeq, reqs, faults, lastList>>

\* ORDER BY payment_date DESC: every order of the rows S in which the dates
\* do not increase (rows of equal date come in any order).
DateDesc(S) ==
    {s \in [1..Cardinality(S) -> S] :
        /\ \A a, b \in 1..Cardinality(S) : a # b => s[a] # s[b]
        /\ \A a \in 1..(Cardinality(S) - 1) : s[a].payment_date >= s[a + 1].payment_date}

\* GET /api/workers/:id/payments, GET /api/vendors/:id/payments
ListDone ==
    LET c == Client(Crud)
        p == <<crud.kind, crud.id>>
    IN  /\ crud.op = "list"
        /\ c # 0
        /\ \E s \in DateDesc(Owned(c, p)) :
              lastList' = [kind |-> crud.kind, payee |-> crud.id, rows |-> s,
                           afterDelete |-> p \in deletedOk]
        /\ CrudReturned
        /\ UNCHANGED <<payees, payments, payeeSeq, paymentSeq, conn, reqs, faults,
                       deletedOk>>

\* GET /api/workers, GET /api/vendors: the payee rows as the client sees them.
GetDone ==
    /\ crud.op = "get"
    /\ Client(Crud) # 0
    /\ CrudReturned
    /\ UNCHANGED <<payees, payments, payeeSeq, paymentSeq, conn, reqs, faults,
                   deletedOk, lastList>>

\* ---------------------------------------------------------------- specification
\* The payment handlers and the creation of payees, both kinds of payee.
Next ==
    \/ \E r \in Reqs, k \in Kinds, i \in PayeeIds, b \in Bodies : Receive(r, k, i, b)
    \/ \E r \in Reqs : BeginDone(r)
    \/ \E r \in Reqs : InsertDone(r)
    \/ \E r \in Reqs : UpdateDone(r)
    \/ \E r \in Reqs : CommitDone(r)
    \/ \E r \in Reqs : RollbackDone(r)
    \/ \E r \in Reqs : StorageFault(r)
    \/ \E c \in Conns : IdleTimeout(c)
    \/ \E k \in Kinds : \E q \in CrudInputs(k) : q.op = "create" /\ Issue(q)
    \/ CreateDone

Spec == Init /\ [][Next]_vars

\* The same handlers with the two listings, on the workers tables alone.
NextList ==
    \/ \E r \in Reqs, i \in PayeeIds, b \in Bodies : Receive(r, "worker", i, b)
    \/ \E r \in Reqs : BeginDone(r)
    \/ \E r \in Reqs : InsertDone(r)
    \/ \E r \in Reqs : UpdateDone(r)
    \/ \E r \in Reqs : CommitDone(r)
    \/ \E r \in Reqs : RollbackDone(r)
    \/ \E r \in Reqs : StorageFault(r)
    \/ \E c \in Conns : IdleTimeout(c)
    \/ \E q \in CrudInputs("worker") : Issue(q)
    \/ CreateDone
    \/ EditDone
    \/ DeleteDone
    \/ ListDone
    \/ GetDone

SpecList == Init /\ [][NextList]_vars

\* The request bodies tried with the larger pool.
PoolBodies == {<<1, 2>>}

\* The worker payment handlers, the creation of workers and the worker
\* listing, on the larger pool.
NextPool ==
    \/ \E r \in Reqs, i \in PayeeIds, b \in PoolBodies : Receive(r, "worker", i, b)
    \/ \E r \in Reqs : BeginDone(r)
    \/ \E r \in Reqs : InsertDone(r)
    \/ \E r \in Reqs : UpdateDone(r)
    \/ \E r \in Reqs : CommitDone(r)
    \/ \E r \in Reqs : RollbackDone(r)
    \/ \E q \in CrudInputs("worker") :
          (q.op = "get" \/ (q.op = "create" /\ q.name # NULL)) /\ Issue(q)
    \/ CreateDone
    \/ GetDone

SpecPool == InitPool /\ [][NextPool]_vars

\* ---------------------------------------------------------------- properties
InSeq(x, s) == \E j \in 1..Len(s) : s[j] = x

Done(r) == reqs[r].pc = "done"

Quiet == \A r \in Reqs : ~Active(r)

\* The ledger entry of r, and the aggregate update of r, in committed state.
EntryDurable(r) == \E e \in payments : e.req = r

UpdateDurable(r) == InSeq(r, payees[Key(r)].applied)

\* The same, as uncommitted writes of some session.
EntryPending(r) == \E c \in Conns : \E e \in conn[c].ins : e.req = r

UpdatePending(r) ==
    \E c \in Conns : Key(r) \in DOMAIN conn[c].rows
                     /\ InSeq(r, conn[c].rows[Key(r)].applied)
                     /\ ~UpdateDurable(r)

\* The same, as a statement on client c sees them.
EntryVisible(c, r) == \E e \in PaymentsView(c) : e.req = r

UpdateVisible(c, r) == InSeq(r, RowView(c, Key(r)).applied)

RECURSIVE SumAmounts(_)
SumAmounts(S) ==
    IF S = {} THEN 0
    ELSE LET e == CHOOSE x \in S : TRUE IN e.amount + SumAmounts(S \ {e})

Ledger(p) == {e \in payments : e.kind = p[1] /\ e.payee = p[2]}

\* C1: once a payment request has finished, its ledger entry and its
\* aggregate update are either both durable or both absent.
C1_AllOrNothing ==
    \A r \in Reqs : Done(r) => (EntryDurable(r) <=> UpdateDurable(r))

\* C2: whenever no payment request is in flight, every existing payee's
\* total_paid is the sum of the amounts of its ledger entries.
C2_TotalIsLedgerSum ==
    Quiet => \A p \in PayeeKeys :
                payees[p].exists => payees[p].total_paid = SumAmounts(Ledger(p))

\* C3: a reader (payment listing, payee listing) never runs against a
\* snapshot that shows a payment's ledger entry without its aggregate update,
\* or the update without the entry.
C3_NoTornRead ==
    (crud.op \in {"list", "get"} /\ Client(Crud) # 0) =>
        \A r \in Reqs : EntryVisible(Client(Crud), r) <=> UpdateVisible(Client(Crud), r)

\* The BEGIN, COMMIT or ROLLBACK of q runs in this step.
TxnStmt(q) ==
    /\ reqs[q].pc \in {"begin", "commit", "rollback"}
    /\ Client(q) # 0
    /\ reqs'[q].pc # reqs[q].pc
    /\ faults' = faults

Fate(r) == <<EntryDurable(r), UpdateDurable(r), EntryPending(r), UpdatePending(r)>>

\* C4: the BEGIN, COMMIT or ROLLBACK of one payment request never changes
\* what becomes of the entry and the update of a request on another payee.
C4_NoCrossPayeeInterference ==
    [][\A q, r \in Reqs :
          (q # r /\ reqs[r].pc # "new" /\ Key(q) # Key(r) /\ TxnStmt(q))
              => Fate(r)' = Fate(r)]_vars

\* C5: a payment request that failed after BEGIN leaves neither its ledger
\* row nor its aggregate update behind.
C5_FailureRestores ==
    \A r \in Reqs :
        (Done(r) /\ reqs[r].failed # "no") => (~EntryDurable(r) /\ ~UpdateDurable(r))

\* The payee of r was never created: its id is beyond the payee sequence.
NeverExisted(r) == reqs[r].pc # "new" /\ reqs[r].id > payeeSeq[reqs[r].kind]

C6_NeverSucceeds ==
    \A r \in Reqs :
        (Done(r) /\ NeverExisted(r)) =>
            /\ reqs[r].resp # "ok"
            /\ faults = 0 => reqs[r].resp = "error"
            /\ reqs[r].failed # "no"
            /\ reqs[r].entry = 0
            /\ ~EntryDurable(r) /\ ~EntryPending(r)

C6_LedgerUntouched ==
    \A r \in Reqs :
        (NeverExisted(r)' /\ reqs'[r].pc # reqs[r].pc) =>
            (payees' = payees /\ payments' = payments)

MaxId(S) == CHOOSE n \in {e.id : e \in S} : \A e \in S : e.id <= n

\* C7: whenever no payment request is in flight, a payee with ledger entries
\* carries the payment date of its most recently inserted entry.
C7_LastDateIsLatestInsert ==
    \A p \in PayeeKeys :
        (Quiet /\ payees[p].exists /\ Ledger(p) # {}) =>
            \E e \in Ledger(p) : /\ e.id = MaxId(Ledger(p))
                                 /\ payees[p].last_payment_date = e.payment_date

\* The payment requests received for payee p.
On(p) == {r \in Reqs : reqs[r].pc # "new" /\ Key(r) = p}

RECURSIVE SumRequested(_)
SumRequested(S) ==
    IF S = {} THEN 0
    ELSE LET r == CHOOSE x \in S : TRUE IN reqs[r].amount + SumRequested(S \ {r})

\* C8: when the payment requests on a payee ran concurrently and every one
\* was answered with success, total_paid grew by the sum of their amounts.
C8_NoLostUpdate ==
    \A p \in PayeeKeys :
        (/\ payees[p].exists
         /\ Cardinality(On(p)) >= 2
         /\ \A r \in On(p) : Done(r) /\ reqs[r].resp = "ok" /\ reqs[r].overlap)
            => payees[p].total_paid = SumRequested(On(p))

\* C9: no committed ledger entry lacks its payee, and a payment listing
\* taken after the payee's DELETE answered success is empty.
C9_NoOrphansCascade ==
    /\ \A e \in payments : payees[<<e.kind, e.payee>>].exists
    /\ lastList.afterDelete => lastList.rows = <<>>

ValidBody(r) ==
    /\ IsNumeric(reqs[r].amount)
    /\ reqs[r].amount > 0
    /\ IsDate(reqs[r].payment_date)

\* C10: a payment request whose amount is not a positive number, or whose
\* date is no date, is rejected before any statement is issued.
C10_ValidatedBeforeStorage ==
    \A r \in Reqs :
        (reqs[r].pc # "new" /\ ~ValidBody(r)) =>
            /\ Done(r)
            /\ reqs[r].resp = "error"
            /\ reqs[r].failed = "no"
            /\ ~EntryDurable(r) /\ ~EntryPending(r)
            /\ ~UpdateDurable(r) /\ ~UpdatePending(r)

\* The payee row created in this step carries total_paid 0.
CreatedAtZero ==
    \A k \in Kinds :
        payeeSeq'[k] # payeeSeq[k] =>
            LET p == <<k, payeeSeq'[k]>>
            IN  \/ payees'[p].exists /\ payees'[p].total_paid = 0
                \/ \E c \in Conns : /\ p \in DOMAIN conn'[c].rows
                                     /\ conn'[c].rows[p].exists
                                     /\ conn'[c].rows[p].total_paid = 0

\* No step lowers the total_paid of a payee that exists before and after it.
NeverLowered ==
    \A p \in PayeeKeys :
        (payees[p].exists /\ payees'[p].exists) =>
            payees'[p].total_paid >= payees[p].total_paid

\* C11: a payee is created with total_paid 0, and no step ever makes the
\* total_paid of a payee smaller than it was.
C11_TotalMonotonic == [][CreatedAtZero /\ NeverLowered]_vars

\* C12: a payment request whose INSERT succeeded and whose UPDATE found no
\* payee row, the payee having been deleted, is not answered with success.
C12_UpdateFailsWithoutPayee ==
    \A r \in Reqs :
        (Done(r) /\ reqs[r].entry # 0 /\ reqs[r].missed /\ Key(r) \in deletedOk)
            => reqs[r].resp # "ok"

\* This step is the statement of a single-statement (non-payment) handler.
CrudStep == crud.op # "none" /\ crud' = NoCrud

SameAggregate(a, b) ==
    a.total_paid = b.total_paid /\ a.last_payment_date = b.last_payment_date

\* The step leaves every committed aggregate alone, and a payee row that
\* appears carries the column defaults.
AggregatesKept ==
    \A p \in PayeeKeys :
        /\ (payees[p].exists /\ payees'[p].exists) => SameAggregate(payees'[p], payees[p])
        /\ (~payees[p].exists /\ payees'[p].exists) => SameAggregate(payees'[p], NoRow)

\* The same for the uncommitted payee rows the step leaves with a session.
PendingAggregatesKept ==
    \A c \in Conns : \A p \in DOMAIN conn'[c].rows :
        conn'[c].rows[p].exists =>
            SameAggregate(conn'[c].rows[p],
                          IF RowView(c, p).exists THEN RowView(c, p) ELSE NoRow)

\* The step adds no ledger entry, committed or pending, and the committed
\* entries it removes are those of the payee a DELETE names.
LedgerOnlyCascades ==
    /\ payments' \subseteq payments
    /\ \A c \in Conns : conn'[c].ins \subseteq conn[c].ins
    /\ \A e \in payments \ payments' :
          crud.op = "delete" /\ e.kind = crud.kind /\ e.payee = crud.id

\* A ledger entry, once inserted, keeps its fields.
EntriesImmutable ==
    \A e \in payments : \A f \in payments' :
        (e.kind = f.kind /\ e.id = f.id) => e = f

\* C13: the payee create, edit, delete and the listings never add or change a
\* ledger entry nor change a payee's total_paid or last_payment_date; their
\* only effect on the ledger is the cascade of a payee DELETE; and no step at
\* all changes the fields of an existing ledger entry.
C13_OnlyPaymentsWrite ==
    [][/\ CrudStep => (AggregatesKept /\ PendingAggregatesKept /\ LedgerOnlyCascades)
       /\ EntriesImmutable]_vars

\* C13, reached: a PUT has rewritten, inside an open transaction, a payee
\* whose committed row already carries a payment.
C13_Witness ==
    \E c \in Conns : \E p \in DOMAIN conn[c].rows :
        /\ crud.op = "none"
        /\ payees[p].exists /\ payees[p].applied # <<>> /\ payees[p].name \in Names
        /\ conn[c].rows[p].exists /\ conn[c].rows[p].name \in NewNames

\* No handler is running or waiting: the server is idle.
Idle == Quiet /\ crud.op = "none"

\* The open transaction of client c holds the uncommitted ledger entry or the
\* uncommitted aggregate update of payment request r.
PendingOn(c, r) ==
    \/ \E e \in conn[c].ins : e.req = r
    \/ /\ Key(r) \in DOMAIN conn[c].rows
       /\ InSeq(r, conn[c].rows[Key(r)].applied)
       /\ ~UpdateDurable(r)

\* Client c sits in an open transaction with uncommitted payment writes.
OpenWithWrites(c) == conn[c].txn /\ \E r \in Reqs : PendingOn(c, r)

\* C14: whenever no request is in flight, no pooled client is left inside an
\* open transaction that holds uncommitted ledger or aggregate writes.
C14_TransactionsResolved == Idle => \A c \in Conns : ~OpenWithWrites(c)

\* C15: a payment request answered with success has its ledger entry and its
\* aggregate update in committed state, as long as no DELETE has touched the
\* payee.
C15_SuccessIsDurable ==
    \A r \in Reqs :
        (/\ Done(r) /\ reqs[r].resp = "ok"
         /\ payees[Key(r)].exists /\ Key(r) \notin deletedOk)
            => (EntryDurable(r) /\ UpdateDurable(r))

\* The ledger rows, committed or pending, that request r inserted.
EntriesOf(r) ==
    {e \in payments : e.req = r}
        \cup UNION {{e \in conn[c].ins : e.req = r} : c \in Conns}

\* C16: a payment request that has finished was answered, with a failure
\* response when one of its statements failed, and it inserted at most one
\* ledger row.
C16_OneResponse ==
    \A r \in Reqs :
        /\ Done(r) => reqs[r].resp \in {"ok", "error"}
        /\ (Done(r) /\ reqs[r].failed # "no") => reqs[r].resp = "error"
        /\ Cardinality(EntriesOf(r)) <= 1

\* This step is a statement of payment request r that returned without error.
PaymentStep(r) ==
    /\ reqs[r].pc \in {"begin", "insert", "update", "commit"}
    /\ reqs'[r].pc # reqs[r].pc
    /\ reqs'[r].failed = "no"

\* The committed state changes by at most: the aggregate of r's payee, and
\* one new ledger entry, that of r.
OnlyOwnPayment(r) ==
    /\ \A p \in PayeeKeys \ {Key(r)} : payees'[p] = payees[p]
    /\ (payees[Key(r)].exists /\ payees'[Key(r)].exists)
          => payees'[Key(r)].name = payees[Key(r)].name
    /\ payments \subseteq payments'
    /\ \A e \in payments' \ payments :
          e.req = r /\ e.kind = reqs[r].kind /\ e.payee = reqs[r].id

\* C17: the statements of a payment request on payee P change, in committed
\* state, nothing but P's total_paid and last_payment_date and add no ledger
\* entry but the request's own: P's other fields, the other payees of either
\* kind and the existing ledger entries stay as they were.
C17_FrameOfPayment == [][\A r \in Reqs : PaymentStep(r) => OnlyOwnPayment(r)]_vars

\* Row a comes before row b in the order by payment date descending, then
\* by insertion descending.
Before(a, b) ==
    \/ a.payment_date > b.payment_date
    \/ a.payment_date = b.payment_date /\ a.id > b.id

\* C18: the latest payment listing holds rows of the payee asked for only,
\* ordered by payment date descending, rows of equal date most recently
\* inserted first.
C18_ListOrder ==
    LET s == lastList.rows
    IN  /\ \A j \in 1..Len(s) : s[j].kind = lastList.kind /\ s[j].payee = lastList.payee
        /\ \A j, k \in 1..Len(s) : j < k => Before(s[j], s[k])

\* C19: while a client holds the uncommitted writes of payment request r (r
\* has run BEGIN and a write on it and neither COMMIT nor ROLLBACK), no
\* statement of another handler runs on that client, and the statement r is
\* running, if any, runs on that client.
C19_SessionConfinement ==
    \A r \in Reqs : \A c \in Conns :
        PendingOn(c, r) =>
            /\ \A h \in Handlers \ {r} : Client(h) # c
            /\ Client(r) \in {0, c}

====
